---- MODULE Spec2Model ----
(***************************************************************************)
(* A model of the piece table of src/src/lib.rs: the two buffers, the node *)
(* list, the cached length, the editing operations insert / delete /       *)
(* replace with their helpers find_node, split_node and                    *)
(* delete_complete_nodes, the snapshots (PTableSlice) and the plain-string *)
(* Baseline of src/src/baseline.rs that the property test compares with.   *)
(*                                                                         *)
(* Indices are 0-based as in the source; a sequence s of the model holds   *)
(* the element of index i at s[i + 1].  Bytes are small integers.         *)
(***************************************************************************)
EXTENDS Integers, Sequences, FiniteSets, TLC

\* ---------------------------------------------------------------- bounds
\* longest initial text handed to PieceTable::new
MaxText == 3
\* longest string handed to insert / replace
MaxData == 2
\* number of editing or snapshot operations in one run
MaxOps == 2

\* usize arithmetic wraps modulo 2^64 in release builds.  TLC's integers are
\* 32 bits wide, so the model wraps modulo 2^20: every length of the model is
\* far below it, so every comparison comes out as it does modulo 2^64.
UsizeModulus == 2 ^ 20

None == [none |-> TRUE]

Min(x, y) == IF x <= y THEN x ELSE y

\* usize subtraction and addition as the release build computes them
WrappingSub(x, y) == (x - y) % UsizeModulus
WrappingAdd(x, y) == (x + y) % UsizeModulus
\* the debug build panics ("attempt to subtract with overflow") instead
SubOverflows(x, y) == y > x

\* ------------------------------------------------------------- sequences
Take(s, n) == IF n <= 0 THEN << >> ELSE SubSeq(s, 1, Min(n, Len(s)))
Drop(s, n) == IF n >= Len(s) THEN << >> ELSE SubSeq(s, (IF n < 0 THEN 0 ELSE n) + 1, Len(s))
\* s[a..b), clamped to s
Cut(s, a, b) == Take(Drop(s, a), b - a)
\* VecDeque::insert(idx, x) / Vec::insert
InsertAt(s, idx, x) == Take(s, idx) \o << x >> \o Drop(s, idx)
\* VecDeque::drain(first..=last)
DrainInclusive(s, first, last) == Take(s, first) \o Drop(s, last + 1)

\* ------------------------------------------------------------------ Node
Node(kind, start, end) == [kind |-> kind, start |-> start, end |-> end]

\* Range<usize>::len(): 0 for an inverted range
RangeLen(start, end) == IF end > start THEN end - start ELSE 0
NodeLen(n) == RangeLen(n.start, n.end)

RECURSIVE SumLens(_)
SumLens(ns) == IF ns = << >> THEN 0 ELSE NodeLen(Head(ns)) + SumLens(Tail(ns))

\* the bytes buf[start..end); a position outside the buffer reads as -1
BufRange(buf, start, end) ==
    [i \in 1..RangeLen(start, end) |->
        IF start + i <= Len(buf) THEN buf[start + i] ELSE -1]

\* Display for PieceTable: the concatenation of the nodes' byte ranges
RECURSIVE RenderNodes(_, _, _)
RenderNodes(ns, orig, add) ==
    IF ns = << >> THEN << >>
    ELSE LET n == Head(ns)
         IN  BufRange(IF n.kind = "Original" THEN orig ELSE add, n.start, n.end)
                \o RenderNodes(Tail(ns), orig, add)

\* ------------------------------------------------------------ PieceTable
PieceTable(orig, add, ns, l) ==
    [original |-> orig, added |-> add, nodes |-> ns, len |-> l]

\* a variant of new that gives the empty text no node
new_without_empty_node(string) ==
    PieceTable(string, << >>,
               IF string = << >> THEN << >> ELSE << Node("Original", 0, Len(string)) >>,
               Len(string))

\* PieceTable::new
new(string) ==
    PieceTable(string, << >>, << Node("Original", 0, Len(string)) >>, Len(string))

to_string(t) == RenderNodes(t.nodes, t.original, t.added)

\* a variant of find_node's loop that also stops at a node that ends at the offset
RECURSIVE find_node_from_inclusive(_, _, _, _)
find_node_from_inclusive(ns, offset, idx, byte_idx) ==
    IF idx >= Len(ns) THEN None
    ELSE IF byte_idx + NodeLen(ns[idx + 1]) >= offset
         THEN [none |-> FALSE, idx |-> idx, byte_idx |-> byte_idx]
         ELSE find_node_from_inclusive(ns, offset, idx + 1,
                                       byte_idx + NodeLen(ns[idx + 1]))

\* find_node: the first node with byte_idx + len > offset, as <<idx, byte_idx>>
RECURSIVE find_node_from(_, _, _, _)
find_node_from(ns, offset, idx, byte_idx) ==
    IF idx >= Len(ns) THEN None
    ELSE IF byte_idx + NodeLen(ns[idx + 1]) > offset
         THEN [none |-> FALSE, idx |-> idx, byte_idx |-> byte_idx]
         ELSE find_node_from(ns, offset, idx + 1, byte_idx + NodeLen(ns[idx + 1]))

find_node(ns, offset) == find_node_from(ns, offset, 0, 0)

\* a variant of split_node whose second half starts where the first one starts
split_node_overlapping(ns, piece_idx, offset) ==
    LET first_node == ns[piece_idx + 1]
        shortened == [first_node EXCEPT !.end = first_node.start + offset]
    IN  IF offset = 0 \/ NodeLen(first_node) <= offset
        THEN [nodes |-> ns, split |-> FALSE, ovf |-> FALSE]
        ELSE [nodes |-> InsertAt([ns EXCEPT ![piece_idx + 1] = shortened],
                                 piece_idx + 1, first_node),
              split |-> TRUE, ovf |-> FALSE]

\* split_node: the node list afterwards, whether the node was split, and whether
\* a subtraction overflowed on the way
split_node(ns, piece_idx, offset) ==
    LET first_node == ns[piece_idx + 1]
    IN  IF offset = 0
        THEN [nodes |-> ns, split |-> FALSE, ovf |-> FALSE]
        ELSE IF NodeLen(first_node) > offset
        THEN LET second_node == [first_node EXCEPT !.start = first_node.start + offset]
                 shortened == [first_node EXCEPT
                                 !.end = first_node.end - (NodeLen(first_node) - offset)]
             IN  [nodes |-> InsertAt([ns EXCEPT ![piece_idx + 1] = shortened],
                                     piece_idx + 1, second_node),
                  split |-> TRUE, ovf |-> FALSE]
        ELSE [nodes |-> [ns EXCEPT ![piece_idx + 1].end =
                                      WrappingSub(first_node.end, offset - 1)],
              split |-> FALSE,
              ovf |-> SubOverflows(first_node.end, offset - 1)]

\* delete_complete_nodes: the scan from the located node, then the drain of the
\* nodes that lie whole inside [a, b).  first = -1 stands for None.
RECURSIVE complete_scan(_, _, _, _, _, _, _)
complete_scan(ns, i, byte_idx, a, b, first, last) ==
    IF i >= Len(ns) THEN [first |-> first, last |-> last]
    ELSE LET node_len == NodeLen(ns[i + 1])
             inside == byte_idx >= a /\ byte_idx + node_len <= b
             first2 == IF inside /\ first = -1 THEN i ELSE first
             last2 == IF inside THEN i ELSE last
         IN  IF byte_idx + node_len >= b
             THEN [first |-> first2, last |-> last2]
             ELSE complete_scan(ns, i + 1, byte_idx + node_len, a, b, first2, last2)

\* a variant of delete_complete_nodes that drains from the located node on
drain_from_located(ns, idx, byte_idx, a, b) ==
    LET found == complete_scan(ns, idx, byte_idx, a, b, -1, -1)
    IN  IF found.first # -1 THEN DrainInclusive(ns, idx, found.last) ELSE ns

delete_complete_nodes(ns, idx, byte_idx, a, b) ==
    LET found == complete_scan(ns, idx, byte_idx, a, b, -1, -1)
    IN  IF found.first # -1 THEN DrainInclusive(ns, found.first, found.last) ELSE ns

\* a variant of insert that places the new node after the located node even when
\* the offset is the node's first byte
insert_after_located(t, data, offset) ==
    LET node == Node("Added", Len(t.added), Len(t.added) + Len(data))
        found == find_node(t.nodes, offset)
        sp == split_node(t.nodes, found.idx, offset - found.byte_idx)
    IN  [tbl |-> PieceTable(t.original, t.added \o data,
                            IF found = None THEN Append(t.nodes, node)
                            ELSE InsertAt(sp.nodes, found.idx + 1, node),
                            WrappingAdd(t.len, Len(data))),
         ovf |-> found # None /\ sp.ovf]

\* a variant of insert that puts the data at the front of the added buffer
insert_prepending(t, data, offset) ==
    LET node == Node("Added", Len(t.added), Len(t.added) + Len(data))
        found == find_node(t.nodes, offset)
        sp == split_node(t.nodes, found.idx, offset - found.byte_idx)
        insert_idx == IF sp.split THEN found.idx + 1 ELSE found.idx
    IN  [tbl |-> PieceTable(t.original, data \o t.added,
                            IF found = None THEN Append(t.nodes, node)
                            ELSE InsertAt(sp.nodes, insert_idx, node),
                            WrappingAdd(t.len, Len(data))),
         ovf |-> found # None /\ sp.ovf]

\* a variant of insert that adds no node for the empty string
insert_skipping_empty(t, data, offset) ==
    LET node == Node("Added", Len(t.added), Len(t.added) + Len(data))
        found == find_node(t.nodes, offset)
        sp == split_node(t.nodes, found.idx, offset - found.byte_idx)
        insert_idx == IF sp.split THEN found.idx + 1 ELSE found.idx
    IN  IF data = << >> THEN [tbl |-> t, ovf |-> FALSE]
        ELSE [tbl |-> PieceTable(t.original, t.added \o data,
                                 IF found = None THEN Append(t.nodes, node)
                                 ELSE InsertAt(sp.nodes, insert_idx, node),
                                 WrappingAdd(t.len, Len(data))),
              ovf |-> found # None /\ sp.ovf]

\* PieceTable::insert(data, offset)
insert(t, data, offset) ==
    LET node == Node("Added", Len(t.added), Len(t.added) + Len(data))
        found == find_node(t.nodes, offset)
        sp == split_node(t.nodes, found.idx, offset - found.byte_idx)
        insert_idx == IF sp.split THEN found.idx + 1 ELSE found.idx
    IN  [tbl |-> PieceTable(t.original, t.added \o data,
                            IF found = None THEN Append(t.nodes, node)
                            ELSE InsertAt(sp.nodes, insert_idx, node),
                            WrappingAdd(t.len, Len(data))),
         ovf |-> found # None /\ sp.ovf]

\* the second half of PieceTable::delete: the guarded split of the node at index
\* start and the shrinking of its front half
delete_partial(ns, start, byte_idx, a, b) ==
    IF start < Len(ns) /\ byte_idx <= a /\ b <= byte_idx + NodeLen(ns[start + 1])
    THEN LET sp == split_node(ns, start, WrappingSub(b, byte_idx))
             front == sp.nodes[start + 1]
         IN  IF sp.split
             THEN [nodes |-> [sp.nodes EXCEPT ![start + 1].end =
                                  WrappingSub(front.end, WrappingSub(b, a))],
                   ovf |-> SubOverflows(b, byte_idx) \/ sp.ovf \/ SubOverflows(b, a)
                             \/ SubOverflows(front.end, WrappingSub(b, a))]
             ELSE [nodes |-> sp.nodes, ovf |-> SubOverflows(b, byte_idx) \/ sp.ovf]
    ELSE [nodes |-> ns, ovf |-> FALSE]

\* a variant of delete that removes the bytes from the original buffer as well
delete_in_place(t, a, b) ==
    LET found == find_node(t.nodes, a)
        part == IF found = None THEN [nodes |-> t.nodes, ovf |-> FALSE]
                ELSE delete_partial(
                        delete_complete_nodes(t.nodes, found.idx, found.byte_idx, a, b),
                        found.idx, found.byte_idx, a, b)
    IN  [tbl |-> PieceTable(Take(t.original, a) \o Drop(t.original, b), t.added,
                            part.nodes, WrappingSub(t.len, RangeLen(a, b))),
         ovf |-> part.ovf \/ SubOverflows(t.len, RangeLen(a, b))]

\* a variant of delete that also cuts the range out of the added buffer
delete_cutting_added(t, a, b) ==
    LET found == find_node(t.nodes, a)
        part == IF found = None THEN [nodes |-> t.nodes, ovf |-> FALSE]
                ELSE delete_partial(
                        delete_complete_nodes(t.nodes, found.idx, found.byte_idx, a, b),
                        found.idx, found.byte_idx, a, b)
    IN  [tbl |-> PieceTable(t.original, Take(t.added, a) \o Drop(t.added, b),
                            part.nodes, WrappingSub(t.len, RangeLen(a, b))),
         ovf |-> part.ovf \/ SubOverflows(t.len, RangeLen(a, b))]

\* a variant of delete that takes the range as a..=b
delete_inclusive(t, a, b) ==
    LET found == find_node(t.nodes, a)
        part == IF found = None THEN [nodes |-> t.nodes, ovf |-> FALSE]
                ELSE delete_partial(
                        delete_complete_nodes(t.nodes, found.idx, found.byte_idx, a, b + 1),
                        found.idx, found.byte_idx, a, b + 1)
    IN  [tbl |-> PieceTable(t.original, t.added, part.nodes,
                            WrappingSub(t.len, RangeLen(a, b + 1))),
         ovf |-> part.ovf \/ SubOverflows(t.len, RangeLen(a, b + 1))]

\* PieceTable::delete(a..b)
delete(t, a, b) ==
    LET found == find_node(t.nodes, a)
        part == IF found = None THEN [nodes |-> t.nodes, ovf |-> FALSE]
                ELSE delete_partial(
                        delete_complete_nodes(t.nodes, found.idx, found.byte_idx, a, b),
                        found.idx, found.byte_idx, a, b)
    IN  [tbl |-> PieceTable(t.original, t.added, part.nodes,
                            WrappingSub(t.len, RangeLen(a, b))),
         ovf |-> part.ovf \/ SubOverflows(t.len, RangeLen(a, b))]

\* PieceTable::len(): the debug build asserts the cached length against the
\* rendering before it returns it
len_assertion_fails(t) == t.len # Len(to_string(t))

\* the end of the range replace deletes
replace_end(t, data, offset) == Min(offset + Len(data), WrappingSub(t.len, 1))

\* PieceTable::replace(data, offset)
replace(t, data, offset) ==
    LET del == delete(t, offset, replace_end(t, data, offset))
        ins == insert(del.tbl, data, offset)
    IN  [tbl |-> ins.tbl,
         ovf |-> SubOverflows(t.len, 1) \/ del.ovf \/ ins.ovf,
         assert_fails |-> len_assertion_fails(t)]

\* Baseline (src/src/baseline.rs): String::insert_str and String::replace_range
baseline_insert(text, data, offset) == Take(text, offset) \o data \o Drop(text, offset)
baseline_delete(text, a, b) == Take(text, a) \o Drop(text, b)

\* ------------------------------------------------------------ PTableSlice
\* usize::saturating_sub
SaturatingSub(x, y) == IF x >= y THEN x - y ELSE 0

\* the walk of PieceTable::slice over the node list
RECURSIVE slice_walk(_, _, _, _, _, _, _)
slice_walk(ns, i, byte_idx, found_start, a, b, out) ==
    IF i >= Len(ns) THEN out
    ELSE LET node == ns[i + 1]
             node_start == byte_idx
             node_end == byte_idx + NodeLen(node)
             intersects == node_end > a /\ node_start < b
             middle == IF intersects /\ found_start /\ node_end < b
                       THEN Append(out, node) ELSE out
             first == [node EXCEPT
                         !.start = node.start + SaturatingSub(a, node_start),
                         !.end = IF node_end >= b THEN node.end - (node_end - b)
                                 ELSE node.end]
             clipped == [node EXCEPT !.end = node.end - (node_end - b)]
         IN  IF intersects /\ ~found_start
             THEN slice_walk(ns, i + 1, node_end, TRUE, a, b, Append(middle, first))
             ELSE IF intersects /\ node_end >= b
             THEN Append(middle, clipped)
             ELSE slice_walk(ns, i + 1, node_end, found_start, a, b, middle)

\* PieceTable::slice(a..b): the clipped nodes
slice(t, a, b) == slice_walk(t.nodes, 0, 0, FALSE, a, b, << >>)

\* PieceTable::create_slice(): a copy of the node list
create_slice(t) == t.nodes

\* the walk of PTableSlice::slice over the frozen node list
RECURSIVE subslice_walk(_, _, _, _, _, _)
subslice_walk(ns, i, byte_idx, remaining, start_offset, out) ==
    IF i >= Len(ns) THEN out
    ELSE LET node == ns[i + 1]
             node_len == NodeLen(node)
             covers == byte_idx + node_len > start_offset
             node_start == SaturatingSub(start_offset, byte_idx)
             node_end == IF remaining < node_len - node_start
                         THEN node_start + remaining ELSE node_len
             taken == covers /\ node_start < node_end
             new_node == [node EXCEPT
                            !.start = node.start + node_start,
                            !.end = node.start + node_start + (node_end - node_start)]
             out2 == IF taken THEN Append(out, new_node) ELSE out
             remaining2 == IF taken THEN remaining - (node_end - node_start)
                           ELSE remaining
         IN  IF remaining2 = 0 THEN out2
             ELSE subslice_walk(ns, i + 1, byte_idx + node_len, remaining2,
                                start_offset, out2)

\* a variant of PTableSlice::slice that takes d - c bytes from the start of the
\* slice, as if the start offset were never added to the clipped node
slice_of_slice_from_start(snodes, c, d) ==
    LET new_nodes == subslice_walk(snodes, 0, 0, WrappingSub(d, c), 0, << >>)
    IN  IF new_nodes = << >> THEN None ELSE [none |-> FALSE, nodes |-> new_nodes]

\* PTableSlice::slice(c..d): None, or the node list of the sub-slice
slice_of_slice(snodes, c, d) ==
    LET new_nodes == subslice_walk(snodes, 0, 0, WrappingSub(d, c), c, << >>)
    IN  IF new_nodes = << >> THEN None ELSE [none |-> FALSE, nodes |-> new_nodes]

\* PTableSlice::len
slice_len(snodes) == SumLens(snodes)

\* the indexing buf[start..end] of From<&PTableSlice> for String is checked
IndexPanics(ns, orig, add) ==
    \E i \in 1..Len(ns) :
        \/ ns[i].start > ns[i].end
        \/ ns[i].end > Len(IF ns[i].kind = "Original" THEN orig ELSE add)

\* From<&PTableSlice> for String, reading the two buffers given
slice_to_string(snodes, orig, add) ==
    IF IndexPanics(snodes, orig, add) THEN [panic |-> TRUE, text |-> << >>]
    ELSE [panic |-> FALSE, text |-> RenderNodes(snodes, orig, add)]

\* ----------------------------------------------------------------- state
VARIABLES
    original,   \* PieceTable.original: the immutable initial text
    added,      \* PieceTable.added: the append-only buffer
    nodes,      \* PieceTable.nodes
    len,        \* PieceTable.len: the cached length
    debug,      \* TRUE: the debug build (overflow checks, debug_assert); FALSE: release
    status,     \* "ok", or "panicked" once a call has panicked
    loc,        \* where the PieceTable value lives: "home", "moved", or "dropped"
    stale,      \* what a read of `added` through a pointer to a place the table left yields
    snap,       \* the live PTableSlice, or None
    baseline,   \* Baseline.text, driven by the same operations
    last,       \* the last operation, its arguments and the state it was called in
    ops,        \* the number of calls and moves so far
    kinds,      \* Nodes.kinds: a NodeKindVec
    starts,     \* Nodes.starts
    lens,       \* Nodes.lens
    std_vec     \* the plain list the property tests drive beside a store

vars == << original, added, nodes, len, debug, status, loc, stale, snap,
           baseline, last, ops, kinds, starts, lens, std_vec >>

\* the node store of src/src/nodes.rs, which the piece table of lib.rs does not use
storeVars == << kinds, starts, lens, std_vec >>

\* Nodes::new() beside an empty list
StoreIsNew ==
    /\ kinds = [inner |-> << >>, len |-> 0]
    /\ starts = << >>
    /\ lens = << >>
    /\ std_vec = << >>

Table == PieceTable(original, added, nodes, len)
Text == to_string(Table)

\* the initial texts: n distinct bytes 1..n
InitialText(n) == [i \in 1..n |-> i]
\* the inserted strings: k bytes that occur nowhere else in the two buffers
FreshData(k) == [i \in 1..k |-> 10 + Len(added) + i]

Op(name, data, a, b) ==
    [op |-> name, data |-> data, a |-> a, b |-> b, pre |-> Table, parent |-> snap,
     none |-> FALSE]

Init ==
    \E n \in 0..MaxText, d \in BOOLEAN :
        /\ original = new(InitialText(n)).original
        /\ added = new(InitialText(n)).added
        /\ nodes = new(InitialText(n)).nodes
        /\ len = new(InitialText(n)).len
        /\ debug = d
        /\ status = "ok"
        /\ loc = "home"
        /\ stale = << >>
        /\ snap = None
        /\ baseline = InitialText(n)
        /\ last = [op |-> "new", data |-> InitialText(n), a |-> 0, b |-> 0,
                   pre |-> new(InitialText(n)), parent |-> None, none |-> FALSE]
        /\ ops = 0
        /\ StoreIsNew

\* no document of a run is longer than this
DocumentBound == MaxText + MaxOps * MaxData
\* the cached length as a bound of the arguments: a length that wrapped around in
\* a release build stands for every position past the longest document
ArgLen == Min(len, DocumentBound)

\* the driver makes at most MaxOps calls and stops at a panic
CanCall == status = "ok" /\ ops < MaxOps
\* a call on the table needs the table
CanCallTable == CanCall /\ loc # "dropped"

\* a call that returned: the table it left behind
Returned(t) ==
    /\ original' = t.original
    /\ added' = t.added
    /\ nodes' = t.nodes
    /\ len' = t.len
    /\ status' = "ok"

\* a call that panicked: the caller unwinds and the table is not used again
Panicked ==
    /\ status' = "panicked"
    /\ UNCHANGED << original, added, nodes, len >>

Insert ==
    /\ CanCallTable
    /\ \E k \in 0..MaxData, offset \in 0..ArgLen :
          LET data == FreshData(k)
              r == insert(Table, data, offset)
          IN  /\ IF debug /\ r.ovf THEN Panicked ELSE Returned(r.tbl)
              /\ baseline' = baseline_insert(baseline, data, offset)
              /\ last' = Op("insert", data, offset, offset)
    /\ ops' = ops + 1
    /\ UNCHANGED << debug, loc, stale, snap, storeVars >>

Delete ==
    /\ CanCallTable
    /\ \E a \in 0..ArgLen, b \in 0..ArgLen :
          /\ a <= b
          /\ LET r == delete(Table, a, b)
             IN  IF debug /\ r.ovf THEN Panicked ELSE Returned(r.tbl)
          /\ baseline' = baseline_delete(baseline, a, b)
          /\ last' = Op("delete", << >>, a, b)
    /\ ops' = ops + 1
    /\ UNCHANGED << debug, loc, stale, snap, storeVars >>

Replace ==
    /\ CanCallTable
    /\ \E k \in 0..MaxData, offset \in 0..ArgLen :
          LET data == FreshData(k)
              r == replace(Table, data, offset)
          IN  /\ IF debug /\ (r.assert_fails \/ r.ovf) THEN Panicked ELSE Returned(r.tbl)
              /\ last' = Op("replace", data, offset, offset)
    /\ ops' = ops + 1
    /\ UNCHANGED << debug, loc, stale, snap, baseline, storeVars >>

\* the buffer a PTableSlice reads through its `added` pointer, which was taken
\* from the table at the place ptr
ReadAdded(ptr) == IF ptr = loc THEN added ELSE stale

\* a PTableSlice: its frozen nodes and its pointer, with the range it was asked
\* for, the table it was taken from and the text it rendered when it was made
Snapshot(snodes, ptr, kind, a, b, of) ==
    [none |-> FALSE, nodes |-> snodes, ptr |-> ptr, kind |-> kind, a |-> a, b |-> b,
     of |-> of, text |-> slice_to_string(snodes, original, ReadAdded(ptr)).text]

\* String::from(&snap)
SnapString == slice_to_string(snap.nodes, original, ReadAdded(snap.ptr))

CreateSlice ==
    /\ CanCallTable
    /\ snap = None
    /\ snap' = Snapshot(create_slice(Table), loc, "create_slice", 0, len, Table)
    /\ last' = Op("create_slice", << >>, 0, len)
    /\ ops' = ops + 1
    /\ UNCHANGED << original, added, nodes, len, debug, status, loc, stale, baseline, storeVars >>

TakeSlice ==
    /\ CanCallTable
    /\ snap = None
    /\ \E a \in 0..ArgLen, b \in 0..ArgLen :
          /\ a <= b
          /\ snap' = Snapshot(slice(Table, a, b), loc, "slice", a, b, Table)
          /\ last' = Op("slice", << >>, a, b)
    /\ ops' = ops + 1
    /\ UNCHANGED << original, added, nodes, len, debug, status, loc, stale, baseline, storeVars >>

\* snap.slice(c..d): the sub-slice replaces the slice it was taken from
ReSlice ==
    /\ CanCall
    /\ snap # None
    /\ \E c \in 0..(snap.b - snap.a), d \in 0..(snap.b - snap.a) :
          /\ c <= d
          /\ LET r == slice_of_slice(snap.nodes, c, d)
             IN  /\ snap' = IF r = None THEN snap
                            ELSE Snapshot(r.nodes, snap.ptr, "reslice",
                                          snap.a + c, snap.a + d, snap.of)
                 /\ last' = [Op("reslice", << >>, c, d) EXCEPT !.none = (r = None)]
    /\ ops' = ops + 1
    /\ UNCHANGED << original, added, nodes, len, debug, status, loc, stale, baseline, storeVars >>

\* what is found where the table's `added` String was, once the table has left:
\* the old bytes, other bytes, or an empty String
StaleReads == { added, [i \in 1..Len(added) |-> 0], << >> }

\* the PieceTable goes out of scope while the PTableSlice lives on (the end of a
\* scope is no call: it is not counted in ops)
DropTable ==
    /\ status = "ok" /\ loc # "dropped"
    /\ snap # None
    /\ loc' = "dropped"
    /\ stale' \in StaleReads
    /\ last' = Op("drop", << >>, 0, 0)
    /\ ops' = ops
    /\ UNCHANGED << original, added, nodes, len, debug, status, snap, baseline, storeVars >>

\* the PieceTable is moved to another place (returned, pushed into a Vec, ...)
MoveTable ==
    /\ CanCallTable
    /\ loc = "home"
    /\ loc' = "moved"
    /\ stale' \in StaleReads
    /\ last' = Op("move", << >>, 0, 0)
    /\ ops' = ops + 1
    /\ UNCHANGED << original, added, nodes, len, debug, status, snap, baseline, storeVars >>

Next == Insert \/ Delete \/ Replace

Spec == Init /\ [][Next]_vars

\* the property test compare_implementations: insert and delete only
CompareNext == Insert \/ Delete

CompareSpec == Init /\ [][CompareNext]_vars

\* the table together with its snapshots
SliceNext ==
    Insert \/ Delete \/ Replace \/ CreateSlice \/ TakeSlice \/ ReSlice
        \/ DropTable \/ MoveTable

SliceSpec == Init /\ [][SliceNext]_vars

\* ---------------------------------------------------------------- claims
PreText == to_string(last.pre)

\* C1: after every operation of a sequence of in-bounds insert and delete calls
\* the rendered text of the PieceTable equals the text of the Baseline.
C1_RenderEqualsBaseline == status = "ok" => Text = baseline

\* C2: in every state reachable by in-bounds insert, delete and replace the cached
\* len equals the sum of the node lengths and the number of rendered bytes.
C2_LenIsSumOfNodes == status = "ok" => (len = SumLens(nodes) /\ len = Len(Text))

\* C3: delete(a..b) with 0 <= a <= b <= len() leaves the rendered text equal to
\* T[0..a) followed by T[b..), T being the text rendered before the call.
C3_DeleteRemovesRange ==
    (status = "ok" /\ last.op = "delete")
        => Text = Take(PreText, last.a) \o Drop(PreText, last.b)

\* C4: insert(data, offset) with offset <= len() leaves the rendered text equal to
\* T[0..offset) + data + T[offset..) and increases len by the length of data.
C4_InsertSplicesData ==
    last.op = "insert"
        => /\ status = "ok"
           /\ Text = Take(PreText, last.a) \o last.data \o Drop(PreText, last.a)
           /\ len = last.pre.len + Len(last.data)

\* an insert of a non-empty string strictly inside a node of a table of several nodes
C4_Witness ==
    /\ last.op = "insert" /\ status = "ok"
    /\ Len(last.data) > 0
    /\ Len(last.pre.nodes) >= 2
    /\ LET found == find_node(last.pre.nodes, last.a)
       IN  found # None /\ found.byte_idx < last.a

\* C10: replace(data, offset) has the effect of delete(offset .. min(offset +
\* data.len(), len())) followed by insert(data, offset).
C10_ReplaceIsDeleteThenInsert ==
    (status = "ok" /\ last.op = "replace")
        => Table = insert(delete(last.pre, last.a,
                                 Min(last.a + Len(last.data), last.pre.len)).tbl,
                          last.data, last.a).tbl

\* ------------------------------------------------------------- queries
\* a UTF-8 continuation byte (0b10xxxxxx)
is_continuation(b) == b >= 128 /\ b < 192

\* str::is_char_boundary
is_char_boundary(buf, p) ==
    \/ p = 0
    \/ p = Len(buf)
    \/ p < Len(buf) /\ ~is_continuation(buf[p + 1])

\* the end of the character that starts at the boundary p < Len(buf)
RECURSIVE char_end(_, _)
char_end(buf, q) == IF is_char_boundary(buf, q) THEN q ELSE char_end(buf, q + 1)

\* the result of a query: a panic, nothing, or the bytes of the value
Absent == [panic |-> FALSE, none |-> TRUE, val |-> << >>]
Present(v) == [panic |-> FALSE, none |-> FALSE, val |-> v]
QueryPanics == [panic |-> TRUE, none |-> TRUE, val |-> << >>]

QueryBuffer(t, node) == IF node.kind = "Original" THEN t.original ELSE t.added

\* PieceTable::byte(at)
byte(t, at) ==
    LET found == find_node(t.nodes, at)
    IN  IF found = None THEN Absent
        ELSE LET node == t.nodes[found.idx + 1]
                 p == node.start + (at - found.byte_idx)
                 buf == QueryBuffer(t, node)
             IN  IF p >= Len(buf) THEN QueryPanics ELSE Present(<< buf[p + 1] >>)

\* PieceTable::char(at): buf[p..] panics off a character boundary, and
\* chars().next() is the character that starts at p
char(t, at) ==
    LET found == find_node(t.nodes, at)
    IN  IF found = None THEN Absent
        ELSE LET node == t.nodes[found.idx + 1]
                 p == node.start + (at - found.byte_idx)
                 buf == QueryBuffer(t, node)
             IN  IF p > Len(buf) \/ ~is_char_boundary(buf, p) THEN QueryPanics
                 ELSE IF p = Len(buf) THEN Absent
                 ELSE Present(Cut(buf, p, char_end(buf, p + 1)))

\* the positions asked for: every one up to one past the end, and usize::MAX
QueryPositions == 0..(ArgLen + 1) \cup {UsizeModulus - 1}

Queried(name, at, r) ==
    /\ IF r.panic THEN Panicked ELSE Returned(Table)
    /\ last' = [Op(name, r.val, at, at) EXCEPT !.none = r.none]
    /\ ops' = ops + 1
    /\ UNCHANGED << debug, loc, stale, snap, baseline, storeVars >>

Byte ==
    /\ CanCallTable
    /\ \E at \in QueryPositions : Queried("byte", at, byte(Table, at))

Char ==
    /\ CanCallTable
    /\ \E at \in QueryPositions : Queried("char", at, char(Table, at))

\* "é": one character of two bytes
TwoByteText == << 195, 169 >>

EdgeTexts == { InitialText(n) : n \in 0..MaxText } \cup { TwoByteText }

EdgeInit ==
    \E text \in EdgeTexts, d \in BOOLEAN :
        /\ original = new(text).original
        /\ added = new(text).added
        /\ nodes = new(text).nodes
        /\ len = new(text).len
        /\ debug = d
        /\ status = "ok"
        /\ loc = "home"
        /\ stale = << >>
        /\ snap = None
        /\ baseline = text
        /\ last = [op |-> "new", data |-> text, a |-> 0, b |-> 0,
                   pre |-> new(text), parent |-> None, none |-> FALSE]
        /\ ops = 0
        /\ StoreIsNew

\* delete(a..b) with a > b or with b > len()
DeleteInvalid ==
    /\ CanCallTable
    /\ \E a \in 0..(ArgLen + 1), b \in 0..(ArgLen + 2) :
          /\ a > b \/ b > len
          /\ LET r == delete(Table, a, b)
             IN  IF debug /\ r.ovf THEN Panicked ELSE Returned(r.tbl)
          /\ last' = Op("delete", << >>, a, b)
    /\ ops' = ops + 1
    /\ UNCHANGED << debug, loc, stale, snap, baseline, storeVars >>

\* snap.slice(c..d) with c > d or with d beyond the length of snap; the
\* subtraction d - c is checked in a debug build only
ReSliceInvalid ==
    /\ CanCall
    /\ snap # None
    /\ \E c \in 0..(slice_len(snap.nodes) + 1), d \in 0..(slice_len(snap.nodes) + 2) :
          /\ c > d \/ d > slice_len(snap.nodes)
          /\ LET r == slice_of_slice(snap.nodes, c, d)
                 panics == debug /\ SubOverflows(d, c)
             IN  /\ status' = IF panics THEN "panicked" ELSE "ok"
                 /\ snap' = IF panics \/ r = None THEN snap
                            ELSE Snapshot(r.nodes, snap.ptr, "reslice",
                                          snap.a + c, snap.a + d, snap.of)
                 /\ last' = [Op("reslice", << >>, c, d)
                                EXCEPT !.none = (panics \/ r = None)]
    /\ ops' = ops + 1
    /\ UNCHANGED << original, added, nodes, len, debug, loc, stale, baseline, storeVars >>

\* insert(data, offset) with an offset past the end of the document
InsertPastEnd ==
    /\ CanCallTable
    /\ \E k \in 0..MaxData, offset \in {ArgLen + 1, UsizeModulus - 1} :
          LET data == FreshData(k)
              r == insert(Table, data, offset)
          IN  /\ IF debug /\ r.ovf THEN Panicked ELSE Returned(r.tbl)
              /\ last' = Op("insert", data, offset, offset)
    /\ ops' = ops + 1
    /\ UNCHANGED << debug, loc, stale, snap, baseline, storeVars >>

\* the table with its queries and the inserts past its end
QueryNext == Insert \/ Delete \/ Replace \/ InsertPastEnd \/ Byte \/ Char

QuerySpec == EdgeInit /\ [][QueryNext]_vars

\* the table and its snapshots under calls with arguments in and out of bounds
EdgeNext ==
    Insert \/ Delete \/ InsertPastEnd \/ DeleteInvalid
        \/ TakeSlice \/ ReSlice \/ ReSliceInvalid

EdgeSpec == EdgeInit /\ [][EdgeNext]_vars

\* ------------------------------------------------------------ NodeKindVec
\* src/src/nodekind_vec.rs: one bit per node, packed into words.  The code takes
\* WORD_SIZE from size_of::<usize>() and writes every shift and mask in terms of
\* it; the model runs the same code on words of WORD_SIZE bits, small enough that
\* vectors of several words are reached.  A word is the sequence of its bits, the
\* bit of weight 2^i at [i + 1].
WORD_SIZE == 4
\* number of operations on a NodeKindVec in one run
MaxKindOps == 9

ZeroWord == [i \in 1..WORD_SIZE |-> 0]

NodeKindVec(in, l) == [inner |-> in, len |-> l]

\* NodeKindVec::offset: None, or the word and the bit of idx
NodeKindVec_offset(v, idx) ==
    IF v.len <= idx THEN None
    ELSE [none |-> FALSE, word_idx |-> idx \div WORD_SIZE, offset |-> idx % WORD_SIZE]

increment_len(v) ==
    NodeKindVec(IF v.len % WORD_SIZE = 0 THEN Append(v.inner, ZeroWord) ELSE v.inner,
                v.len + 1)

\* NodeKindVec::set on an index that offset() accepts: Original sets the bit
NodeKindVec_set(v, idx, value) ==
    LET at == NodeKindVec_offset(v, idx)
    IN  [v EXCEPT !.inner[at.word_idx + 1][at.offset + 1] =
                      IF value = "Original" THEN 1 ELSE 0]

NodeKindVec_push_back(v, value) ==
    NodeKindVec_set(increment_len(v), v.len, value)

\* (word & !mask) | ((word & mask) << 1) with mask = usize::MAX << start_offset
ShiftWithin(word, start_offset) ==
    [i \in 1..WORD_SIZE |->
        IF i - 1 < start_offset THEN word[i]
        ELSE IF i - 1 = start_offset THEN 0
        ELSE word[i - 1]]

\* a variant of CarryInto that loses the bit that leaves the word before
CarryDropped(current_word, next_word) ==
    [i \in 1..WORD_SIZE |-> IF i = 1 THEN 0 ELSE next_word[i - 1]]

\* (current_word >> (WORD_SIZE - 1)) | (next_word << 1)
CarryInto(current_word, next_word) ==
    [i \in 1..WORD_SIZE |-> IF i = 1 THEN current_word[WORD_SIZE] ELSE next_word[i - 1]]

\* the loop of shift_right: word_idx runs from end_word - 1 down to start_word
RECURSIVE carry_words(_, _, _)
carry_words(inner, word_idx, start_word) ==
    IF word_idx < start_word THEN inner
    ELSE carry_words([inner EXCEPT ![word_idx + 2] =
                          CarryInto(inner[word_idx + 1], inner[word_idx + 2])],
                     word_idx - 1, start_word)

\* NodeKindVec::shift_right
shift_right(v, idx) ==
    LET grown == increment_len(v)
        from == NodeKindVec_offset(grown, idx)
        to == NodeKindVec_offset(grown, grown.len - 1)
        carried == IF from.word_idx = to.word_idx THEN grown.inner
                   ELSE carry_words(grown.inner, to.word_idx - 1, from.word_idx)
    IN  [grown EXCEPT !.inner =
            [carried EXCEPT ![from.word_idx + 1] =
                ShiftWithin(carried[from.word_idx + 1], from.offset)]]

\* a variant of NodeKindVec::insert without the check of idx against len
insert_unchecked(v, idx, value) ==
    IF idx >= v.len THEN [panic |-> FALSE, vec |-> NodeKindVec_push_back(v, value)]
    ELSE [panic |-> FALSE, vec |-> NodeKindVec_set(shift_right(v, idx), idx, value)]

\* NodeKindVec::insert: the vector afterwards, or a panic for idx > len
NodeKindVec_insert(v, idx, value) ==
    IF idx > v.len THEN [panic |-> TRUE, vec |-> v]
    ELSE IF idx = v.len THEN [panic |-> FALSE, vec |-> NodeKindVec_push_back(v, value)]
    ELSE [panic |-> FALSE, vec |-> NodeKindVec_set(shift_right(v, idx), idx, value)]

\* NodeKindVec::get: None, or the kind in a one-element sequence
NodeKindVec_get(v, idx) ==
    LET at == NodeKindVec_offset(v, idx)
    IN  IF at = None THEN << >>
        ELSE IF v.inner[at.word_idx + 1][at.offset + 1] = 1
        THEN << "Original" >> ELSE << "Added" >>

\* Vec::get(idx).copied() of the plain list
std_get(list, idx) == IF idx < Len(list) THEN << list[idx + 1] >> ELSE << >>

NodeKinds == {"Original", "Added"}

CanCallKinds == status = "ok" /\ ops < MaxKindOps

tableVars == << original, added, nodes, len, debug, loc, stale, snap, baseline >>

\* one operation of the property test nodekind_vec_matches_vec: the same call on
\* the NodeKindVec and on the list
KindsStep(name, idx, value, r, list) ==
    /\ kinds' = r
    /\ std_vec' = list
    /\ last' = Op(name, << value >>, idx, idx)
    /\ ops' = ops + 1
    /\ UNCHANGED << tableVars, status, starts, lens >>

PushBack ==
    /\ CanCallKinds
    /\ \E value \in NodeKinds :
          KindsStep("push_back", kinds.len, value,
                    NodeKindVec_push_back(kinds, value), Append(std_vec, value))

VecInsert ==
    /\ CanCallKinds
    /\ \E idx \in 0..Len(std_vec), value \in NodeKinds :
          LET r == NodeKindVec_insert(kinds, idx, value)
          IN  /\ ~r.panic
              /\ KindsStep("insert", idx, value, r.vec, InsertAt(std_vec, idx, value))

VecSet ==
    /\ CanCallKinds
    /\ \E idx \in 0..(Len(std_vec) - 1), value \in NodeKinds :
          KindsStep("set", idx, value, NodeKindVec_set(kinds, idx, value),
                    [std_vec EXCEPT ![idx + 1] = value])

\* get(idx) up to two past the end; the result is kept in last.data
VecGet ==
    /\ CanCallKinds
    /\ \E idx \in 0..(Len(std_vec) + 1) :
          /\ last' = Op("get", NodeKindVec_get(kinds, idx), idx, idx)
          /\ ops' = ops + 1
          /\ UNCHANGED << tableVars, status, storeVars >>

KindsInit ==
    /\ original = << >> /\ added = << >> /\ nodes = new(<< >>).nodes /\ len = 0
    /\ debug \in BOOLEAN
    /\ status = "ok" /\ loc = "home" /\ stale = << >> /\ snap = None
    /\ baseline = << >>
    /\ last = [op |-> "new", data |-> << >>, a |-> 0, b |-> 0,
               pre |-> new(<< >>), parent |-> None, none |-> FALSE]
    /\ ops = 0
    /\ StoreIsNew

KindsNext == PushBack \/ VecInsert \/ VecSet \/ VecGet

KindsSpec == KindsInit /\ [][KindsNext]_vars

\* insert(idx, value) for every idx up to two past the end: the panic "Index out
\* of bounds" for idx > len.  last.data keeps the value and the vector as it was
VecInsertAny ==
    /\ CanCallKinds
    /\ \E idx \in 0..(Len(std_vec) + 2), value \in NodeKinds :
          LET r == NodeKindVec_insert(kinds, idx, value)
          IN  /\ status' = IF r.panic THEN "panicked" ELSE "ok"
              /\ kinds' = r.vec
              /\ std_vec' = IF r.panic THEN std_vec ELSE InsertAt(std_vec, idx, value)
              /\ last' = Op("insert", << value, kinds >>, idx, idx)
    /\ ops' = ops + 1
    /\ UNCHANGED << tableVars, starts, lens >>

\* the NodeKindVec under calls with indices in and out of bounds
KindsEdgeNext == PushBack \/ VecInsertAny \/ VecSet \/ VecGet

KindsEdgeSpec == KindsInit /\ [][KindsEdgeNext]_vars

\* ------------------------------------------------------------------ Nodes
\* src/src/nodes.rs: the struct of arrays and its search by lanes
LANE_SIZE_64 == 64
LANE_SIZE_8 == 8
\* longest run of nodes behind the full 64-node lanes of a searched array
MaxLens == 9

\* the sum of s[lo..hi], by halves
RECURSIVE SumRange(_, _, _)
SumRange(s, lo, hi) ==
    IF lo > hi THEN 0
    ELSE IF lo = hi THEN s[lo]
    ELSE SumRange(s, lo, (lo + hi) \div 2) + SumRange(s, (lo + hi) \div 2 + 1, hi)

\* reduce_sum of a lane, and the total length of an array of node lengths
Sum(s) == SumRange(s, 1, Len(s))

\* slice::as_chunks: the full chunks of n elements and what is left over
RECURSIVE chunks_of(_, _)
chunks_of(s, n) ==
    IF Len(s) < n THEN << >> ELSE << Take(s, n) >> \o chunks_of(Drop(s, n), n)

as_chunks(s, n) ==
    [lanes |-> chunks_of(s, n), leftover |-> Drop(s, (Len(s) \div n) * n)]

\* NodeSearch: Found(handle) or FirstRemainingNode(handle)
NodeSearch(found, idx, text_idx) == [found |-> found, idx |-> idx, text_idx |-> text_idx]

\* impl Add<NodeHandle> for NodeSearch
SearchAdd(r, idx, text_idx) == NodeSearch(r.found, r.idx + idx, r.text_idx + text_idx)

RECURSIVE find_node_1_from(_, _, _, _)
find_node_1_from(elems, offset, byte_idx, idx) ==
    IF idx >= Len(elems) THEN NodeSearch(FALSE, idx, byte_idx)
    ELSE IF byte_idx + elems[idx + 1] > offset THEN NodeSearch(TRUE, idx, byte_idx)
    ELSE find_node_1_from(elems, offset, byte_idx + elems[idx + 1], idx + 1)

find_node_1(elems, offset) == find_node_1_from(elems, offset, 0, 0)

\* the loop of find_node_8 from lane number k on: the lane that holds the offset
\* is searched with the offset as it was passed in
RECURSIVE find_node_8_from(_, _, _, _, _)
find_node_8_from(lanes, offset, byte_idx, idx, k) ==
    IF k >= Len(lanes) THEN NodeSearch(FALSE, idx, byte_idx)
    ELSE LET sum == Sum(lanes[k + 1])
         IN  IF byte_idx + sum > offset
             THEN SearchAdd(find_node_1(lanes[k + 1], offset), idx, byte_idx)
             ELSE find_node_8_from(lanes, offset, byte_idx + sum, idx + LANE_SIZE_8, k + 1)

find_node_8(lanes, offset) == find_node_8_from(lanes, offset, 0, 0, 0)

RECURSIVE find_node_64_from(_, _, _, _, _)
find_node_64_from(lanes, offset, byte_idx, idx, k) ==
    IF k >= Len(lanes) THEN NodeSearch(FALSE, idx, byte_idx)
    ELSE LET sum == Sum(lanes[k + 1])
             inner == as_chunks(lanes[k + 1], LANE_SIZE_8)
             first == SearchAdd(find_node_8(inner.lanes, offset), idx, byte_idx)
         IN  IF byte_idx + sum > offset
             THEN IF first.found THEN first
                  ELSE SearchAdd(find_node_1(inner.leftover, offset),
                                 first.idx, first.text_idx)
             ELSE find_node_64_from(lanes, offset, byte_idx + sum,
                                    idx + LANE_SIZE_64, k + 1)

find_node_64(lanes, offset) == find_node_64_from(lanes, offset, 0, 0, 0)

\* Nodes::find_node: None, or the handle (idx, text_idx)
Nodes_find_node(ls, offset) ==
    LET by64 == as_chunks(ls, LANE_SIZE_64)
        r64 == find_node_64(by64.lanes, offset)
        by8 == as_chunks(by64.leftover, LANE_SIZE_8)
        r8 == find_node_8(by8.lanes, offset)
        r1 == find_node_1(by8.leftover, offset)
    IN  IF r64.found THEN [none |-> FALSE, idx |-> r64.idx, text_idx |-> r64.text_idx]
        ELSE IF r8.found
        THEN [none |-> FALSE, idx |-> r8.idx + r64.idx,
              text_idx |-> r8.text_idx + r64.text_idx]
        ELSE IF r1.found
        THEN [none |-> FALSE, idx |-> r1.idx, text_idx |-> r1.text_idx]
        ELSE None

\* the searched arrays: no or one full 64-node lane, then every run of up to
\* MaxLens nodes of length 0 or 1
NodeLens == {0, 1}
FullLanes == { << >>, [i \in 1..LANE_SIZE_64 |-> 1] }
ShortLens == UNION { [1..n -> NodeLens] : n \in 0..MaxLens }

\* the NodeKindVec of n pushed Added nodes: every bit is clear
AddedKinds(n) ==
    NodeKindVec([w \in 1..((n + WORD_SIZE - 1) \div WORD_SIZE) |-> ZeroWord], n)

\* the start bytes of nodes that lie one behind the other in the added buffer
StartsOf(ls) == [i \in 1..Len(ls) |-> SumRange(ls, 1, i - 1)]

\* a Nodes filled by push with nodes of the given lengths
FindInit ==
    /\ original = << >> /\ added = << >> /\ nodes = new(<< >>).nodes /\ len = 0
    /\ debug = TRUE
    /\ status = "ok" /\ loc = "home" /\ stale = << >> /\ snap = None
    /\ baseline = << >>
    /\ last = [op |-> "new", data |-> << >>, a |-> 0, b |-> 0,
               pre |-> new(<< >>), parent |-> None, none |-> FALSE]
    /\ ops = 0
    /\ \E full \in FullLanes, short \in ShortLens :
          /\ lens = full \o short
          /\ starts = StartsOf(full \o short)
          /\ kinds = AddedKinds(Len(full) + Len(short))
    /\ std_vec = << >>

\* one call of find_node, for every offset up to one past the total length
FindNode ==
    /\ status = "ok" /\ ops = 0
    /\ \E offset \in 0..(Sum(lens) + 1) :
          LET r == Nodes_find_node(lens, offset)
          IN  last' = [Op("find_node",
                          IF r = None THEN << >> ELSE << r.idx, r.text_idx >>,
                          offset, offset) EXCEPT !.none = (r = None)]
    /\ ops' = ops + 1
    /\ UNCHANGED << tableVars, status, storeVars >>

FindNext == FindNode

FindSpec == FindInit /\ [][FindNext]_vars

\* ---------------------------------------------------------------- helpers
\* src/src/lib.rs: the private helpers find_node and split_node called on the
\* tables that insert and delete build

\* split_node(piece_idx, offset) on every node of the table, for every offset up
\* to one past the node's length; last.data keeps the value returned
SplitNode ==
    /\ CanCallTable
    /\ \E piece_idx \in 0..(Len(nodes) - 1) :
          \E offset \in 0..(NodeLen(nodes[piece_idx + 1]) + 1) :
             LET r == split_node(nodes, piece_idx, offset)
             IN  /\ IF debug /\ r.ovf THEN Panicked
                    ELSE Returned(PieceTable(original, added, r.nodes, len))
                 /\ last' = Op("split_node", << r.split >>, piece_idx, offset)
    /\ ops' = ops + 1
    /\ UNCHANGED << debug, loc, stale, snap, baseline, storeVars >>

\* find_node(offset) for every offset up to one past the bytes of the nodes;
\* last.data keeps the pair returned, last.none tells None
LocateNode ==
    /\ CanCallTable
    /\ \E offset \in 0..(Min(SumLens(nodes), DocumentBound) + 1) :
          LET r == find_node(nodes, offset)
          IN  last' = [Op("find_node",
                          IF r = None THEN << >> ELSE << r.idx, r.byte_idx >>,
                          offset, offset) EXCEPT !.none = (r = None)]
    /\ ops' = ops + 1
    /\ UNCHANGED << original, added, nodes, len, debug, status, loc, stale, snap,
                    baseline, storeVars >>

\* the table under edits and direct calls of its helpers
HelperNext == Insert \/ Delete \/ SplitNode \/ LocateNode

HelperSpec == Init /\ [][HelperNext]_vars

\* ---------------------------------------------------------- longer runs
\* number of calls in one run of the longer driver
MaxEdits == 3

\* the longer driver makes at most MaxEdits calls and stops at a panic
CanEdit == status = "ok" /\ loc # "dropped" /\ ops < MaxEdits

\* pt.insert(data, offset) with offset <= pt.len()
RangeInsert ==
    /\ CanEdit
    /\ \E k \in 0..MaxData, offset \in 0..ArgLen :
          LET data == FreshData(k)
              r == insert(Table, data, offset)
          IN  /\ IF debug /\ r.ovf THEN Panicked ELSE Returned(r.tbl)
              /\ baseline' = baseline_insert(baseline, data, offset)
              /\ last' = Op("insert", data, offset, offset)
    /\ ops' = ops + 1
    /\ UNCHANGED << debug, loc, stale, snap, storeVars >>

\* pt.delete(a..b) with a <= b <= pt.len()
RangeDelete ==
    /\ CanEdit
    /\ \E a \in 0..ArgLen, b \in 0..ArgLen :
          /\ a <= b
          /\ LET r == delete(Table, a, b)
             IN  IF debug /\ r.ovf THEN Panicked ELSE Returned(r.tbl)
          /\ baseline' = baseline_delete(baseline, a, b)
          /\ last' = Op("delete", << >>, a, b)
    /\ ops' = ops + 1
    /\ UNCHANGED << debug, loc, stale, snap, storeVars >>

\* pt.replace(data, offset) with offset <= pt.len()
RangeReplace ==
    /\ CanEdit
    /\ \E k \in 0..MaxData, offset \in 0..ArgLen :
          LET data == FreshData(k)
              r == replace(Table, data, offset)
          IN  /\ IF debug /\ (r.assert_fails \/ r.ovf) THEN Panicked ELSE Returned(r.tbl)
              /\ last' = Op("replace", data, offset, offset)
    /\ ops' = ops + 1
    /\ UNCHANGED << debug, loc, stale, snap, baseline, storeVars >>

\* pt.slice(a..b) with a <= b <= pt.len(): the snapshot replaces the one taken
\* before
RangeSlice ==
    /\ CanEdit
    /\ \E a \in 0..ArgLen, b \in 0..ArgLen :
          /\ a <= b
          /\ snap' = Snapshot(slice(Table, a, b), loc, "slice", a, b, Table)
          /\ last' = Op("slice", << >>, a, b)
    /\ ops' = ops + 1
    /\ UNCHANGED << original, added, nodes, len, debug, status, loc, stale, baseline, storeVars >>

\* the table and the snapshots taken from it while it lives where it was made
RangeNext == RangeInsert \/ RangeDelete \/ RangeReplace \/ RangeSlice

RangeSpec == Init /\ [][RangeNext]_vars

\* ------------------------------------------------------------ insert_char
\* src/src/lib.rs: insert_char.  A char is its code point; the string that
\* consists of it is its UTF-8 encoding.

\* char::len_utf8
len_utf8(c) == IF c < 128 THEN 1 ELSE IF c < 2048 THEN 2 ELSE IF c < 65536 THEN 3 ELSE 4

\* String::push(c) / c.to_string(): the bytes of the UTF-8 encoding of c
encode_utf8(c) ==
    IF c < 128 THEN << c >>
    ELSE IF c < 2048 THEN << 192 + (c \div 64), 128 + (c % 64) >>
    ELSE IF c < 65536
    THEN << 224 + (c \div 4096), 128 + ((c \div 64) % 64), 128 + (c % 64) >>
    ELSE << 240 + (c \div 262144), 128 + ((c \div 4096) % 64),
            128 + ((c \div 64) % 64), 128 + (c % 64) >>

\* a variant of insert_char whose node is one byte long for every char
insert_char_one_byte(t, offset, c) ==
    LET node == Node("Added", Len(t.added), Len(t.added) + 1)
        found == find_node(t.nodes, offset)
        sp == split_node(t.nodes, found.idx, offset - found.byte_idx)
        insert_idx == IF sp.split THEN found.idx + 1 ELSE found.idx
    IN  [tbl |-> PieceTable(t.original, t.added \o encode_utf8(c),
                            IF found = None THEN Append(t.nodes, node)
                            ELSE InsertAt(sp.nodes, insert_idx, node),
                            WrappingAdd(t.len, len_utf8(c))),
         ovf |-> found # None /\ sp.ovf]

\* PieceTable::insert_char(offset, c)
insert_char(t, offset, c) ==
    LET node == Node("Added", Len(t.added), Len(t.added) + len_utf8(c))
        found == find_node(t.nodes, offset)
        sp == split_node(t.nodes, found.idx, offset - found.byte_idx)
        insert_idx == IF sp.split THEN found.idx + 1 ELSE found.idx
    IN  [tbl |-> PieceTable(t.original, t.added \o encode_utf8(c),
                            IF found = None THEN Append(t.nodes, node)
                            ELSE InsertAt(sp.nodes, insert_idx, node),
                            WrappingAdd(t.len, len_utf8(c))),
         ovf |-> found # None /\ sp.ovf]

\* the chars handed to insert_char: 'a', U+00E9, U+20AC and U+1F600, of one to
\* four bytes
Chars == { 97, 233, 8364, 128512 }

\* insert_char(offset, c) for every offset up to one past the end; last.b keeps c
InsertChar ==
    /\ CanCallTable
    /\ \E c \in Chars, offset \in 0..(ArgLen + 1) :
          LET r == insert_char(Table, offset, c)
          IN  /\ IF debug /\ r.ovf THEN Panicked ELSE Returned(r.tbl)
              /\ last' = Op("insert_char", encode_utf8(c), offset, c)
    /\ ops' = ops + 1
    /\ UNCHANGED << debug, loc, stale, snap, baseline, storeVars >>

\* the table under edits by strings and by chars
CharNext == Insert \/ Delete \/ InsertChar

CharSpec == Init /\ [][CharNext]_vars

\* ------------------------------------------------------------ comparisons
\* src/src/lib.rs: PartialEq with a string and with another table, PartialOrd

\* PartialEq<String> and PartialEq<&str>: &self.to_string() == other
eq_String(t, other) == to_string(t) = other

\* a variant of eq that compares the node lists and the buffers
eq_by_nodes(t, other) ==
    t.nodes = other.nodes /\ t.original = other.original /\ t.added = other.added

\* PartialEq for PieceTable: *other == self.to_string()
eq(t, other) == eq_String(other, to_string(t))

\* Ord for str: the byte strings in lexicographic order
RECURSIVE cmp(_, _)
cmp(x, y) ==
    IF x = << >> THEN (IF y = << >> THEN "Equal" ELSE "Less")
    ELSE IF y = << >> THEN "Greater"
    ELSE IF Head(x) < Head(y) THEN "Less"
    ELSE IF Head(x) > Head(y) THEN "Greater"
    ELSE cmp(Tail(x), Tail(y))

\* PartialOrd for PieceTable: Some(self.to_string().cmp(&other.to_string()))
partial_cmp(t, other) == cmp(to_string(t), to_string(other))

\* the tables the table is compared with: the table as it was before the last
\* call, and the one-node table of its own text
OtherTables == { last.pre, new(Text) }

\* a comparison needs the table and is no editing operation
CanCompare == status = "ok" /\ loc # "dropped"

\* table == other and table.partial_cmp(other); last.data keeps the other table
\* and the two results
Eq ==
    /\ CanCompare
    /\ \E other \in OtherTables :
          last' = Op("eq", << other, eq(Table, other), partial_cmp(Table, other) >>, 0, 0)
    /\ UNCHANGED << original, added, nodes, len, debug, status, loc, stale, snap,
                    baseline, ops, storeVars >>

\* table == string for the text before the last call and the baseline's text
EqString ==
    /\ CanCompare
    /\ \E other \in { PreText, baseline } :
          last' = Op("eq_string", << other, eq_String(Table, other) >>, 0, 0)
    /\ UNCHANGED << original, added, nodes, len, debug, status, loc, stale, snap,
                    baseline, ops, storeVars >>

\* the table under edits and comparisons
EqNext == Insert \/ Delete \/ Eq \/ EqString

EqSpec == Init /\ [][EqNext]_vars

\* ------------------------------------------------------------ Nodes store
\* src/src/nodes.rs: set, push, insert, remove_range, get and the iterator of the
\* struct of arrays, with NodeKindVec::remove_range underneath
\* number of operations on a Nodes store in one run
MaxStoreOps == 7

\* Node::new of nodes.rs: kind, start and len
Node_new(kind, start, l) == [kind |-> kind, start |-> start, len |-> l]

Nodes(ks, ss, ls) == [kinds |-> ks, starts |-> ss, lens |-> ls]

\* Nodes::len; its debug_assert wants the three arrays to have one length
Nodes_len(n) == Len(n.starts)
Nodes_len_assertion_fails(n) ==
    ~(n.kinds.len = Len(n.starts) /\ Len(n.starts) = Len(n.lens))

\* the loop of NodeKindVec::remove_range: for i in end..len, set(i - count, get(i))
RECURSIVE shift_left_from(_, _, _)
shift_left_from(v, i, count) ==
    IF i >= v.len THEN v
    ELSE shift_left_from(NodeKindVec_set(v, i - count, NodeKindVec_get(v, i)[1]),
                         i + 1, count)

\* a variant of NodeKindVec::remove_range that keeps the bits where they are
remove_range_truncating(v, start, end) ==
    IF start >= end \/ start >= v.len THEN v
    ELSE LET count == Min(end, v.len) - start
         IN  NodeKindVec(Take(v.inner, (v.len - count + WORD_SIZE - 1) \div WORD_SIZE),
                         v.len - count)

\* a variant of NodeKindVec::remove_range that keeps every word of the storage
remove_range_keeping_words(v, start, end) ==
    IF start >= end \/ start >= v.len THEN v
    ELSE LET count == Min(end, v.len) - start
             shifted == shift_left_from(v, Min(end, v.len), count)
         IN  NodeKindVec(shifted.inner, v.len - count)

\* NodeKindVec::remove_range(start..end)
NodeKindVec_remove_range(v, start, end) ==
    IF start >= end \/ start >= v.len THEN v
    ELSE LET count == Min(end, v.len) - start
             shifted == shift_left_from(v, Min(end, v.len), count)
         IN  NodeKindVec(Take(shifted.inner,
                              (v.len - count + WORD_SIZE - 1) \div WORD_SIZE),
                         v.len - count)

\* NodeKindVec::get_unchecked: the expect fails when offset() refuses idx
get_unchecked(v, idx) ==
    IF NodeKindVec_offset(v, idx) = None THEN "panic" ELSE NodeKindVec_get(v, idx)[1]

\* a variant of Nodes::set that leaves the length of the node as it was
set_keeping_len(n, idx, node) ==
    IF idx >= Nodes_len(n) THEN [panic |-> TRUE, nodes |-> n]
    ELSE [panic |-> FALSE,
          nodes |-> Nodes(NodeKindVec_set(n.kinds, idx, node.kind),
                          [n.starts EXCEPT ![idx + 1] = node.start],
                          n.lens)]

\* Nodes::set: the store afterwards, or the panic "Index out of bounds"
Nodes_set(n, idx, node) ==
    IF idx >= Nodes_len(n) THEN [panic |-> TRUE, nodes |-> n]
    ELSE [panic |-> FALSE,
          nodes |-> Nodes(NodeKindVec_set(n.kinds, idx, node.kind),
                          [n.starts EXCEPT ![idx + 1] = node.start],
                          [n.lens EXCEPT ![idx + 1] = node.len])]

\* Nodes::push and Nodes::push_back
Nodes_push(n, node) ==
    Nodes(NodeKindVec_push_back(n.kinds, node.kind),
          Append(n.starts, node.start), Append(n.lens, node.len))

\* Nodes::insert: three inserts one after the other, each of which panics for an
\* idx past the end of its array and leaves what the earlier ones have written
Nodes_insert(n, idx, node) ==
    LET k == NodeKindVec_insert(n.kinds, idx, node.kind)
    IN  IF k.panic THEN [panic |-> TRUE, nodes |-> n]
        ELSE IF idx > Len(n.starts)
        THEN [panic |-> TRUE, nodes |-> Nodes(k.vec, n.starts, n.lens)]
        ELSE IF idx > Len(n.lens)
        THEN [panic |-> TRUE,
              nodes |-> Nodes(k.vec, InsertAt(n.starts, idx, node.start), n.lens)]
        ELSE [panic |-> FALSE,
              nodes |-> Nodes(k.vec, InsertAt(n.starts, idx, node.start),
                              InsertAt(n.lens, idx, node.len))]

\* a variant of Nodes::remove_range that leaves the lens as they are
remove_range_keeping_lens(n, start, end) ==
    IF start < end /\ start < Nodes_len(n)
    THEN Nodes(NodeKindVec_remove_range(n.kinds, start, Min(end, Nodes_len(n))),
               Take(n.starts, start) \o Drop(n.starts, Min(end, Nodes_len(n))),
               n.lens)
    ELSE n

\* Nodes::remove_range(start..end)
Nodes_remove_range(n, start, end) ==
    IF start < end /\ start < Nodes_len(n)
    THEN Nodes(NodeKindVec_remove_range(n.kinds, start, Min(end, Nodes_len(n))),
               Take(n.starts, start) \o Drop(n.starts, Min(end, Nodes_len(n))),
               Take(n.lens, start) \o Drop(n.lens, Min(end, Nodes_len(n))))
    ELSE n

\* Nodes::get: None, or the node in a one-element sequence
Nodes_get(n, idx) ==
    IF Nodes_len(n) <= idx THEN << >>
    ELSE << Node_new(get_unchecked(n.kinds, idx), n.starts[idx + 1], n.lens[idx + 1]) >>

\* NodesIter: get(idx) for idx = 0, 1, ... until it returns None
RECURSIVE NodesIter(_, _)
NodesIter(n, idx) ==
    IF Nodes_get(n, idx) = << >> THEN << >>
    ELSE Nodes_get(n, idx) \o NodesIter(n, idx + 1)

into_iter(n) == NodesIter(n, 0)

\* remove_range(start..end) on the NodeKindVec, also with end = start - 1, with
\* end = start and with bounds past the length; last.data keeps the vector as it
\* was
VecRemoveRange ==
    /\ CanCallKinds
    /\ \E start \in 0..(Len(std_vec) + 1) :
       \E end \in (IF start = 0 THEN 0 ELSE start - 1)..(Len(std_vec) + 1) :
          /\ kinds' = NodeKindVec_remove_range(kinds, start, end)
          /\ std_vec' = IF start < end THEN Take(std_vec, start) \o Drop(std_vec, end)
                        ELSE std_vec
          /\ last' = Op("remove_range", << kinds >>, start, end)
    /\ ops' = ops + 1
    /\ UNCHANGED << tableVars, status, starts, lens >>

\* the NodeKindVec under calls that make it grow and shrink
KindsShrinkNext == PushBack \/ VecInsert \/ VecSet \/ VecRemoveRange

KindsShrinkSpec == KindsInit /\ [][KindsShrinkNext]_vars

\* the store of the state
Store == Nodes(kinds, starts, lens)

\* the nodes handed to the store: kind, start and len all differ
StoreNodes == { Node_new("Original", 0, 1), Node_new("Added", 1, 2) }

CanCallStore == status = "ok" /\ ops < MaxStoreOps

\* one call on the store and the same call on the plain list; last.data keeps
\* the node handed in and the store as it was before the call
StoreStep(name, node, a, b, r, list) ==
    /\ kinds' = r.kinds /\ starts' = r.starts /\ lens' = r.lens
    /\ std_vec' = list
    /\ last' = Op(name, << node, Store >>, a, b)
    /\ ops' = ops + 1
    /\ UNCHANGED << tableVars, status >>

NodesPush ==
    /\ CanCallStore
    /\ \E node \in StoreNodes :
          StoreStep("push", node, Len(std_vec), Len(std_vec),
                    Nodes_push(Store, node), Append(std_vec, node))

NodesInsert ==
    /\ CanCallStore
    /\ \E idx \in 0..Len(std_vec), node \in StoreNodes :
          LET r == Nodes_insert(Store, idx, node)
          IN  /\ ~r.panic
              /\ StoreStep("insert", node, idx, idx, r.nodes,
                           InsertAt(std_vec, idx, node))

NodesSet ==
    /\ CanCallStore
    /\ \E idx \in 0..(Len(std_vec) - 1), node \in StoreNodes :
          LET r == Nodes_set(Store, idx, node)
          IN  /\ ~r.panic
              /\ StoreStep("set", node, idx, idx, r.nodes,
                           [std_vec EXCEPT ![idx + 1] = node])

\* remove_range(start..end), also with start >= end and with an end past the
\* length; the list drops the elements of [start, min(end, len))
NodesRemoveRange ==
    /\ CanCallStore
    /\ \E start \in 0..(Len(std_vec) + 1), end \in 0..(Len(std_vec) + 1) :
          StoreStep("remove_range", << >>, start, end,
                    Nodes_remove_range(Store, start, end),
                    IF start < end THEN Take(std_vec, start) \o Drop(std_vec, end)
                    ELSE std_vec)

\* get(idx) up to one past the end; the result is kept in last.data
NodesGet ==
    /\ CanCallStore
    /\ \E idx \in 0..(Len(std_vec) + 1) :
          /\ last' = Op("get", Nodes_get(Store, idx), idx, idx)
          /\ ops' = ops + 1
          /\ UNCHANGED << tableVars, status, storeVars >>

\* set(idx, node) with idx >= len(): the panic "Index out of bounds"
NodesSetPastEnd ==
    /\ CanCallStore
    /\ \E idx \in Len(std_vec)..(Len(std_vec) + 1), node \in StoreNodes :
          LET r == Nodes_set(Store, idx, node)
          IN  /\ status' = IF r.panic THEN "panicked" ELSE "ok"
              /\ kinds' = r.nodes.kinds /\ starts' = r.nodes.starts
              /\ lens' = r.nodes.lens
              /\ last' = Op("set", << node, Store >>, idx, idx)
    /\ ops' = ops + 1
    /\ UNCHANGED << tableVars, std_vec >>

NodesNext ==
    NodesPush \/ NodesInsert \/ NodesSet \/ NodesRemoveRange \/ NodesGet
        \/ NodesSetPastEnd

NodesSpec == KindsInit /\ [][NodesNext]_vars

\* insert(idx, node) with idx > len(): the panic of the first array's insert
NodesInsertPastEnd ==
    /\ CanCallStore
    /\ \E idx \in (Len(std_vec) + 1)..(Len(std_vec) + 2), node \in StoreNodes :
          LET r == Nodes_insert(Store, idx, node)
          IN  /\ status' = IF r.panic THEN "panicked" ELSE "ok"
              /\ kinds' = r.nodes.kinds /\ starts' = r.nodes.starts
              /\ lens' = r.nodes.lens
              /\ last' = Op("insert", << node, Store >>, idx, idx)
    /\ ops' = ops + 1
    /\ UNCHANGED << tableVars, std_vec >>

\* the store under calls with indices and ranges in and out of bounds
NodesEdgeNext ==
    NodesPush \/ NodesInsert \/ NodesSet \/ NodesRemoveRange
        \/ NodesSetPastEnd \/ NodesInsertPastEnd

NodesEdgeSpec == KindsInit /\ [][NodesEdgeNext]_vars

\* the rendering against the buffers of the table the snapshot was taken from
RenderOf(snodes, of) == RenderNodes(snodes, of.original, of.added)

C6_SnapshotOutlivesTable ==
    snap # None => SnapString = [panic |-> FALSE, text |-> snap.text]

\* C7: slice(a..b) with 0 <= a <= b <= len() renders T[a..b) and has length b - a.
C7_SliceRendersRange ==
    last.op = "slice"
        => /\ SnapString = [panic |-> FALSE, text |-> Cut(Text, last.a, last.b)]
           /\ slice_len(snap.nodes) = last.b - last.a

\* C8: create_slice() and slice(0..len()) both render as the whole table does.
C8_FullSliceRendersTable ==
    (last.op = "create_slice" \/ (last.op = "slice" /\ last.a = 0 /\ last.b = len))
        => SnapString = [panic |-> FALSE, text |-> Text]

\* the rendering of table.slice(a + c .. a + d) for the sub-slice the last call asked
\* for, taken from the table state its parent S = table.slice(a..b) was taken from
ResliceWanted ==
    RenderOf(slice(last.parent.of, last.parent.a + last.a, last.parent.a + last.b),
             last.parent.of)

ResliceOfSlice ==
    last.op = "reslice" /\ last.parent.kind \in {"slice", "reslice"}

\* C9 as stated: for S = table.slice(a..b) and 0 <= c <= d <= b - a, S.slice(c..d)
\* renders identically to table.slice(a + c .. a + d).
C9_ResliceAsStated ==
    ResliceOfSlice
        => (~last.none /\ RenderOf(snap.nodes, snap.of) = ResliceWanted)

\* C9 as amended: S.slice(c..d) returns nothing when table.slice(a + c .. a + d)
\* renders the empty text (as for every c = d), and otherwise returns a slice that
\* renders identically to table.slice(a + c .. a + d).
C9_ResliceMatchesTableSlice ==
    ResliceOfSlice
        => IF ResliceWanted = << >> THEN last.none
           ELSE ~last.none /\ RenderOf(snap.nodes, snap.of) = ResliceWanted

\* a proper, non-empty sub-slice of a slice
C9_Witness ==
    /\ ResliceOfSlice /\ ~last.none
    /\ last.a > 0 /\ last.a < last.b /\ last.b < last.parent.b - last.parent.a

\* C11: byte(at) returns the byte T[at] for every at < len() and nothing, without
\* failing, for every at >= len(); char(at) is present for the same positions.
C11_ByteAndCharCoverLen ==
    last.op \in {"byte", "char"}
        => /\ status = "ok"
           /\ last.none = (last.a >= len)
           /\ (last.op = "byte" /\ last.a < len)
                  => (last.a < Len(Text) /\ last.data = << Text[last.a + 1] >>)

\* C12: insert(data, offset) with offset >= len() is no error: the new node is
\* appended at the end of the node list and the text becomes T + data.
C12_InsertPastEndAppends ==
    (last.op = "insert" /\ last.a >= last.pre.len)
        => /\ status = "ok"
           /\ Text = PreText \o last.data
           /\ nodes = Append(last.pre.nodes,
                             Node("Added", Len(last.pre.added),
                                  Len(last.pre.added) + Len(last.data)))

\* C13: delete(a..b) with a > b or b > len() never returns normally with the node
\* list altered or with a cached len that is not the sum of the node lengths.
C13_InvalidDeleteFailsFast ==
    (last.op = "delete" /\ (last.a > last.b \/ last.b > last.pre.len) /\ status = "ok")
        => (nodes = last.pre.nodes /\ len = SumLens(nodes))

\* C14: under every sequence of push_back, insert, set and get on a NodeKindVec
\* and on a plain list, len() agrees and get(idx) is the list's element at idx, or
\* nothing for idx >= len, also across word boundaries.
C14_NodeKindVecMatchesVec ==
    /\ kinds.len = Len(std_vec)
    /\ \A idx \in 0..(Len(std_vec) + 1) : NodeKindVec_get(kinds, idx) = std_get(std_vec, idx)
    /\ last.op = "get" => last.data = std_get(std_vec, last.a)

\* an interior insert into the first word of a vector of more than one word,
\* where the bit that crossed into the second word is set
C14_Witness ==
    /\ last.op = "insert" /\ last.a < WORD_SIZE - 1
    /\ Len(std_vec) > WORD_SIZE
    /\ std_vec[WORD_SIZE + 1] = "Original"

\* the naive scan from the left: the first node with cumulative start + len > offset
NaiveScan(ls, offset) ==
    LET covering == { i \in 1..Len(ls) : SumRange(ls, 1, i) > offset }
        first == CHOOSE i \in covering : \A j \in covering : i <= j
    IN  IF covering = {} THEN << >> ELSE << first - 1, SumRange(ls, 1, first - 1) >>

\* C15: Nodes::find_node returns what a naive left-to-right scan returns: index
\* and cumulative start of the first node with cumulative start + len > offset, or
\* nothing when the offset is at or beyond the total length.
C15_FindNodeMatchesNaiveScan ==
    last.op = "find_node"
        => /\ last.data = NaiveScan(lens, last.a)
           /\ last.none = (last.a >= Sum(lens))

\* the node insert adds to the list
InsertedNode == Node("Added", Len(last.pre.added), Len(last.pre.added) + Len(last.data))

\* rest is the list old, or old with one node cut in two
OldNodesOrSplit(rest, old) ==
    \/ rest = old
    \/ /\ Len(rest) = Len(old) + 1
       /\ \E j \in 1..Len(old) :
             /\ Take(rest, j - 1) = Take(old, j - 1)
             /\ Drop(rest, j + 1) = Drop(old, j)
             /\ rest[j].kind = old[j].kind /\ rest[j + 1].kind = old[j].kind
             /\ rest[j].start = old[j].start /\ rest[j].end = rest[j + 1].start
             /\ rest[j + 1].end = old[j].end

\* C16: every insert changes the buffers only by appending data to added: the old
\* added is a prefix of the new one, original is unchanged, and the single new
\* node is the Added node [old added length, old added length + data.len()).
C16_InsertAppendsToAdded ==
    last.op = "insert"
        => /\ status = "ok"
           /\ original = last.pre.original
           /\ added = last.pre.added \o last.data
           /\ \E i \in 1..Len(nodes) :
                 /\ nodes[i] = InsertedNode
                 /\ OldNodesOrSplit(Take(nodes, i - 1) \o Drop(nodes, i), last.pre.nodes)

\* an insert of data into a table whose added buffer already holds bytes
C16_Witness ==
    /\ last.op = "insert" /\ status = "ok"
    /\ Len(last.data) > 0 /\ Len(last.pre.added) > 0

\* C17: delete(range) leaves the original and the added buffer unchanged for
\* every range; only the node list and the cached length change.
C17_DeleteKeepsBuffers ==
    last.op = "delete" => (original = last.pre.original /\ added = last.pre.added)

\* a delete that changed the node list of a table with bytes in both buffers
C17_Witness ==
    /\ last.op = "delete" /\ status = "ok"
    /\ last.a < last.b /\ nodes # last.pre.nodes
    /\ Len(added) > 0 /\ Len(original) > 0

\* C18: new(text) yields one Original node [0, text.len()), an empty added buffer,
\* len() = text.len() and a rendering equal to text, also for the empty text.
C18_NewIsOneOriginalNode ==
    last.op = "new"
        => /\ nodes = << Node("Original", 0, Len(last.data)) >>
           /\ original = last.data /\ added = << >>
           /\ len = Len(last.data)
           /\ Text = last.data

\* new("")
C18_Witness == last.op = "new" /\ last.data = << >> /\ ops = 0

\* C19: PTableSlice::slice(range) returns None, without panicking, whenever
\* range.start > range.end or the range extends beyond the slice's length.
C19_InvalidResliceIsNone ==
    (last.op = "reslice"
        /\ (last.a > last.b \/ last.b > slice_len(last.parent.nodes)))
        => (status = "ok" /\ last.none)

\* C20: PTableSlice::slice(c..d) returns None exactly when the designated
\* sub-range of the parent's rendering is empty, and otherwise a slice that renders
\* that sub-range.
C20_ResliceIsSubRange ==
    last.op = "reslice"
        => LET want == IF last.a < last.b
                       THEN Cut(RenderOf(last.parent.nodes, last.parent.of), last.a, last.b)
                       ELSE << >>
           IN  /\ status = "ok"
               /\ last.none = (want = << >>)
               /\ ~last.none => RenderOf(snap.nodes, snap.of) = want

\* C21: under every sequence of push, insert (idx <= len), set (idx < len),
\* remove_range and get a Nodes store behaves index for index like a plain list of
\* node records: get(idx) returns the record of the list at idx with its kind,
\* start and len, or nothing past the end, and iteration yields the list in order.
C21_NodesMatchesList ==
    /\ ~Nodes_len_assertion_fails(Store)
    /\ Nodes_len(Store) = Len(std_vec)
    /\ \A idx \in 0..(Len(std_vec) + 1) : Nodes_get(Store, idx) = std_get(std_vec, idx)
    /\ into_iter(Store) = std_vec
    /\ last.op = "get" => last.data = std_get(std_vec, last.a)

\* a remove_range out of the middle of a store of more than one word of kinds that
\* holds nodes of both kinds behind the removed ones
C21_Witness ==
    /\ last.op = "remove_range" /\ status = "ok"
    /\ 0 < last.a /\ last.a < last.b /\ last.b < Nodes_len(last.data[2])
    /\ Nodes_len(last.data[2]) > WORD_SIZE
    /\ \E i, j \in (last.a + 1)..Len(std_vec) : std_vec[i].kind # std_vec[j].kind

\* C22: Nodes::set(idx, node) with idx >= len() fails with the out-of-bounds panic
\* and changes none of the three arrays; with idx < len() it replaces the kind,
\* the start and the len of exactly the node at idx.
C22_SetReplacesOrPanics ==
    last.op = "set"
        => LET node == last.data[1]
               before == last.data[2]
           IN  IF last.a >= Nodes_len(before)
               THEN status = "panicked" /\ Store = before
               ELSE /\ status = "ok"
                    /\ Nodes_len(Store) = Nodes_len(before)
                    /\ \A idx \in 0..(Nodes_len(before) - 1) :
                          Nodes_get(Store, idx) =
                              IF idx = last.a THEN << node >> ELSE Nodes_get(before, idx)

\* a set one past the last node of a store that holds nodes of both kinds
C22_Witness ==
    /\ last.op = "set" /\ status = "panicked"
    /\ last.a = Nodes_len(last.data[2])
    /\ \E i, j \in 1..Len(std_vec) : std_vec[i].kind # std_vec[j].kind

\* C23: NodeKindVec::insert(idx, tag) panics when idx > len() and leaves the array
\* unchanged; when idx == len() it has the effect of push_back(tag).
C23_InsertPanicsOrPushes ==
    last.op = "insert"
        => LET value == last.data[1]
               before == last.data[2]
           IN  IF last.a > before.len
               THEN status = "panicked" /\ kinds = before
               ELSE /\ status = "ok"
                    /\ last.a = before.len
                          => /\ kinds = NodeKindVec_push_back(before, value)
                             /\ kinds.len = before.len + 1
                             /\ NodeKindVec_get(kinds, before.len) = << value >>
                             /\ \A i \in 0..(before.len - 1) :
                                   NodeKindVec_get(kinds, i) = NodeKindVec_get(before, i)

\* an insert two past the end of a vector of more than one word
C23_Witness ==
    /\ last.op = "insert" /\ status = "panicked"
    /\ last.data[2].len > WORD_SIZE
    /\ last.a = last.data[2].len + 2

\* C24: two PieceTables compare equal exactly when their rendered texts are equal,
\* whatever their node lists are, and a table equals a string exactly when its
\* rendering equals the string.
C24_EqualityIsByRendering ==
    /\ last.op = "eq"
          => /\ status = "ok"
             /\ last.data[2] = (Text = to_string(last.data[1]))
             /\ (last.data[3] = "Equal") = (Text = to_string(last.data[1]))
    /\ last.op = "eq_string"
          => status = "ok" /\ last.data[2] = (Text = last.data[1])

\* a table of several nodes found equal to a one-node table of the same text
C24_Witness ==
    /\ last.op = "eq" /\ last.data[2]
    /\ Len(nodes) >= 3 /\ Len(Text) >= 2
    /\ Len(last.data[1].nodes) = 1
    /\ added # last.data[1].added

\* the node insert located for its offset, in the table as it was before the call
Located == find_node(last.pre.nodes, last.a)
LocatedNode == last.pre.nodes[Located.idx + 1]

\* C25 as stated: in insert, when the located node is split the new node is
\* inserted immediately after the first half; when no split occurs the new node is
\* inserted immediately after the (unsplit) located node.
C25_NewNodeAfterLocated ==
    (last.op = "insert" /\ status = "ok" /\ Located # None)
        => /\ nodes[Located.idx + 2] = InsertedNode
           /\ nodes[Located.idx + 1].start = LocatedNode.start
           /\ last.a = Located.byte_idx => nodes[Located.idx + 1] = LocatedNode

\* C25: in insert, when the located node is split the new node is inserted
\* immediately after the first half, the second half following it; when no split
\* occurs the new node is inserted immediately before the unsplit located node.
C25_NewNodeAtOffset ==
    (last.op = "insert" /\ status = "ok" /\ Located # None)
        => LET k == last.a - Located.byte_idx
               i == Located.idx
               old == last.pre.nodes
           IN  IF k > 0
               THEN nodes = Take(old, i)
                              \o << [LocatedNode EXCEPT !.end = LocatedNode.start + k],
                                    InsertedNode,
                                    [LocatedNode EXCEPT !.start = LocatedNode.start + k] >>
                              \o Drop(old, i + 1)
               ELSE nodes = Take(old, i) \o << InsertedNode, LocatedNode >>
                              \o Drop(old, i + 1)

\* an insert of a non-empty string at the first byte of a node that is not the
\* first node of the table
C25_Witness ==
    /\ last.op = "insert" /\ status = "ok" /\ Located # None
    /\ last.a = Located.byte_idx /\ Located.idx > 0
    /\ Len(last.data) > 0

\* the node split_node was called on, as it was before the call
SplitTarget == last.pre.nodes[last.a + 1]

\* C26: split_node(idx, local_offset) with local_offset == 0 or local_offset >= the
\* node's length is a no-op that returns false and leaves the node list unchanged.
C26_SplitOutsideIsNoOp ==
    (last.op = "split_node" /\ (last.b = 0 \/ last.b >= NodeLen(SplitTarget)))
        => /\ status = "ok"
           /\ last.data = << FALSE >>
           /\ nodes = last.pre.nodes

\* C27: split_node(idx, k) with 0 < k < len returns true and replaces the node
\* [start, start + len) by the two adjacent nodes [start, start + k) and
\* [start + k, start + len) of its kind: one node more, the same rendering, and
\* the same sum of lengths.
C27_SplitInsideCutsInTwo ==
    (last.op = "split_node" /\ 0 < last.b /\ last.b < NodeLen(SplitTarget))
        => /\ status = "ok"
           /\ last.data = << TRUE >>
           /\ nodes = Take(last.pre.nodes, last.a)
                        \o << Node(SplitTarget.kind, SplitTarget.start,
                                   SplitTarget.start + last.b),
                              Node(SplitTarget.kind, SplitTarget.start + last.b,
                                   SplitTarget.start + NodeLen(SplitTarget)) >>
                        \o Drop(last.pre.nodes, last.a + 1)
           /\ Len(nodes) = Len(last.pre.nodes) + 1
           /\ Text = PreText
           /\ SumLens(nodes) = SumLens(last.pre.nodes)

\* a split inside a node that has a node before it and a node behind it
C27_Witness ==
    /\ last.op = "split_node" /\ status = "ok"
    /\ 0 < last.b /\ last.b < NodeLen(SplitTarget)
    /\ 0 < last.a /\ last.a + 1 < Len(last.pre.nodes)

\* the nodes delete_complete_nodes removed, and the list it left
CompleteScan ==
    complete_scan(last.pre.nodes, Located.idx, Located.byte_idx, last.a, last.b, -1, -1)
AfterCompleteNodes ==
    delete_complete_nodes(last.pre.nodes, Located.idx, Located.byte_idx, last.a, last.b)

\* C28: in delete(a..b) the split-and-shrink step is applied only to the node
\* located for offset a, and only if that node was not removed as fully contained
\* and the range ends strictly inside it; a different node that occupies the
\* located index after the removal is never split or shortened.
C28_OnlyLocatedNodeIsCut ==
    (last.op = "delete" /\ status = "ok" /\ Located # None)
        => LET removed == CompleteScan.first = Located.idx
               inside == last.b < Located.byte_idx + NodeLen(LocatedNode)
           IN  IF ~removed /\ inside
               THEN /\ Take(nodes, Located.idx) = Take(AfterCompleteNodes, Located.idx)
                    /\ \/ Drop(nodes, Located.idx) = Drop(AfterCompleteNodes, Located.idx)
                       \/ Drop(nodes, Located.idx + 2)
                             = Drop(AfterCompleteNodes, Located.idx + 1)
               ELSE nodes = AfterCompleteNodes

\* the cumulative span [SpanStart(i), SpanEnd(i)) of node i before the call
SpanStart(i) == SumLens(Take(last.pre.nodes, i))
SpanEnd(i) == SpanStart(i) + NodeLen(last.pre.nodes[i + 1])
\* node i was drained by delete_complete_nodes
Drained(i) ==
    /\ Located # None
    /\ CompleteScan.first # -1
    /\ CompleteScan.first <= i /\ i <= CompleteScan.last

C30_FindNodeCoversOffset ==
    /\ last.op = "find_node"
          => /\ status = "ok"
             /\ last.none <=> last.a >= SumLens(nodes)
             /\ ~last.none
                   => LET i == last.data[1]
                          s == last.data[2]
                      IN  /\ i < Len(nodes)
                          /\ s = SumLens(Take(nodes, i))
                          /\ s <= last.a /\ last.a < s + NodeLen(nodes[i + 1])
                          /\ NodeLen(nodes[i + 1]) > 0
                          /\ \A j \in 0..(i - 1) :
                                ~(last.a < SumLens(Take(nodes, j + 1)))
    /\ (last.op = "insert" /\ Located # None)
          => /\ Located.byte_idx <= last.a
             /\ last.a - Located.byte_idx < NodeLen(LocatedNode)

\* find_node returned a node that has an empty node and a node with bytes before it
C30_Witness ==
    /\ last.op = "find_node" /\ ~last.none /\ status = "ok"
    /\ last.data[1] >= 2
    /\ \E j \in 1..last.data[1] : NodeLen(nodes[j]) = 0
    /\ last.data[2] > 0 /\ last.data[2] < last.a

\* C31: an insert at an offset strictly inside a node (0 < local offset < node
\* length) increases the number of nodes by exactly 2; an insert at a node
\* boundary, at offset 0, or at or after the end of the document increases it by
\* exactly 1.
C31_InsertAddsOneOrTwoNodes ==
    last.op = "insert"
        => /\ status = "ok"
           /\ Len(nodes) = Len(last.pre.nodes)
                             + (IF Located # None /\ Located.byte_idx < last.a
                                THEN 2 ELSE 1)

\* an insert past the end of a document of several nodes, which adds one node
C31_Witness ==
    /\ last.op = "insert" /\ status = "ok"
    /\ Located = None /\ last.a > SumLens(last.pre.nodes)
    /\ Len(last.pre.nodes) >= 2
    /\ Len(nodes) = Len(last.pre.nodes) + 1

\* C32: NodeKindVec::remove_range(start..end) is a no-op when start >= end or
\* start >= len(); otherwise it clamps end to len(), removes exactly the tags at
\* the indices [start, end), keeps the remaining tags in their order, reduces
\* len() by the number removed, and leaves the storage with exactly
\* ceil(len() / WORD_SIZE) words.
C32_RemoveRangeCompacts ==
    last.op = "remove_range"
        => LET before == last.data[1]
               count == Min(last.b, before.len) - last.a
           IN  IF last.a >= last.b \/ last.a >= before.len
               THEN kinds = before
               ELSE /\ kinds.len = before.len - count
                    /\ \A i \in 0..(last.a - 1) :
                          NodeKindVec_get(kinds, i) = NodeKindVec_get(before, i)
                    /\ \A i \in last.a..(kinds.len - 1) :
                          NodeKindVec_get(kinds, i) = NodeKindVec_get(before, i + count)
                    /\ NodeKindVec_get(kinds, kinds.len) = << >>
                    /\ Len(kinds.inner) = (kinds.len + WORD_SIZE - 1) \div WORD_SIZE

\* a remove_range with an end past the length that frees a word and leaves tags
\* of both kinds in front of the removed ones
C32_Witness ==
    /\ last.op = "remove_range" /\ status = "ok"
    /\ 0 < last.a /\ last.a < last.data[1].len /\ last.b > last.data[1].len
    /\ Len(kinds.inner) < Len(last.data[1].inner)
    /\ \E i, j \in 1..Len(std_vec) : std_vec[i] # std_vec[j]

\* C33: after every sequence of push, insert, set and remove_range on a Nodes
\* store, the calls that fail with an out-of-bounds panic and the remove_range
\* calls with bounds out of range included, the kinds, the starts and the lens
\* array have the same length.
C33_ArraysHaveOneLength ==
    /\ kinds.len = Len(starts)
    /\ Len(starts) = Len(lens)
    /\ Len(lens) = Len(std_vec)

\* an insert past the end that panicked, on a store of several nodes that four
\* or more calls have built
C33_Witness ==
    /\ last.op = "insert" /\ status = "panicked"
    /\ last.a > Len(starts) /\ Len(starts) >= 2
    /\ ops >= 5

\* C34: insert_char(offset, c) has the same effect on the added buffer, the node
\* list and len() as insert(s, offset) with s the string of the one char c, for
\* every reachable table and every offset.
C34_InsertCharIsInsert ==
    last.op = "insert_char"
        => LET r == insert(last.pre, encode_utf8(last.b), last.a)
           IN  /\ status = "ok" /\ ~r.ovf
               /\ added = r.tbl.added
               /\ nodes = r.tbl.nodes
               /\ len = r.tbl.len
               /\ original = r.tbl.original

\* a char of several bytes inserted strictly inside a node of a table that holds
\* an Added node already
C34_Witness ==
    /\ last.op = "insert_char" /\ status = "ok"
    /\ Len(last.data) >= 3
    /\ Located # None /\ Located.byte_idx < last.a
    /\ Len(last.pre.added) > 0

\* the range of n lies in the buffer n refers to
InBuffer(n) ==
    /\ n.start <= n.end
    /\ n.end <= Len(IF n.kind = "Original" THEN original ELSE added)

\* C35: in every table state reachable by in-bounds insert, delete and replace,
\* and in every snapshot taken from such a state, each node's range satisfies
\* start <= end <= length of the buffer it refers to, so that rendering never
\* reads outside a buffer.
C35_RangesLieInBuffers ==
    /\ \A i \in 1..Len(nodes) : InBuffer(nodes[i])
    /\ snap # None => \A i \in 1..Len(snap.nodes) : InBuffer(snap.nodes[i])
    /\ \A i \in 1..Len(Text) : Text[i] # -1

\* C36: for every reachable table, non-empty data and offset <= len(),
\* insert(data, offset) followed by delete(offset .. offset + data.len())
\* returns and restores the rendered text and len() to what they were before
\* the insert.
C36_InsertThenDeleteRestores ==
    (status = "ok" /\ last.op = "insert" /\ Len(last.data) > 0)
        => LET r == delete(Table, last.a, last.a + Len(last.data))
           IN  /\ ~(debug /\ r.ovf)
               /\ to_string(r.tbl) = PreText
               /\ r.tbl.len = last.pre.len

\* an empty edit was the last call: delete(a..a) with a <= len(), or insert of
\* the empty string at any offset
EmptyDelete == last.op = "delete" /\ last.a = last.b /\ last.a <= last.pre.len
EmptyInsert == last.op = "insert" /\ last.data = << >>

\* C37: empty edits do not change the document: delete(a..a) with a <= len()
\* and insert of the empty string at any offset return and leave the rendered
\* text, len() and both buffers unchanged; delete(a..a) adds at most one node
\* (a split) and the insert adds the zero-length node and at most one more.
C37_EmptyEditsChangeNothing ==
    (EmptyDelete \/ EmptyInsert)
        => /\ status = "ok"
           /\ Text = PreText
           /\ len = last.pre.len
           /\ original = last.pre.original /\ added = last.pre.added
           /\ Len(nodes) - Len(last.pre.nodes) \in (IF EmptyDelete THEN 0..1 ELSE 1..2)

\* delete(a..a) split a node of a table that holds the zero-length node of an
\* earlier empty insert
C37_Witness ==
    /\ EmptyDelete /\ status = "ok"
    /\ Len(nodes) = Len(last.pre.nodes) + 1
    /\ added = << >>
    /\ \E i \in 1..Len(nodes) : nodes[i].kind = "Added"

\* C38: replace(data, offset) never underflows when it computes the end of the
\* range it deletes (len() - 1), and on an empty table (len() = 0) it returns
\* and leaves the rendered text equal to data.
C38_ReplaceNeverUnderflows ==
    last.op = "replace"
        => /\ ~SubOverflows(last.pre.len, 1)
           /\ last.pre.len = 0 => (status = "ok" /\ Text = last.data)
====
